---- MODULE Spec2Model ----
(***************************************************************************)
(* Model of extract_utterances_from_wavs.py: the run over the transcript   *)
(* files (tsv) of a directory, the scan of each row for the target words,  *)
(* the extraction of the matching span from the paired wav with a padded   *)
(* attempt and an unpadded retry, and the metadata rows of output.tsv.     *)
(*                                                                         *)
(* Times are held in milliseconds (the tsv's unit): the script's           *)
(* start_time in seconds is start_time / 1000 here, and the 0.2 s margin   *)
(* is 200.  Arithmetic on times is exact; int() truncates toward zero.     *)
(* A text is a sequence of one-character strings.                          *)
(***************************************************************************)
EXTENDS Integers, Sequences, FiniteSets, TLC

(***************************************************************************)
(* Bounds of the model.                                                    *)
(***************************************************************************)
\* the directory holds at most MaxTsvs transcript files
MaxTsvs == 2
\* a csv reader delivers at most MaxRows rows of one transcript (header included)
MaxRows == 4

(***************************************************************************)
(* Program constants.                                                      *)
(***************************************************************************)
\* the margin of the first attempt: start_time-0.2, end_time+0.2 (seconds)
PAD == 200
\* float(row[0])/1000: milliseconds per second
MS_PER_S == 1000
\* unique_id = 0
FIRST_ID == 0
\* the header row of output.tsv
HEADER == <<"Identifier", "Parent WAV", "Word", "Start Time", "End Time", "Text">>

(***************************************************************************)
(* Input domains.                                                          *)
(***************************************************************************)
\* a wav that is not in the directory
NoWav == [exists |-> FALSE, framerate |-> 0, nchannels |-> 0, sampwidth |-> 0, nframes |-> 0]
\* two 3-second wavs: 1000 frames per second mono, 500 frames per second stereo
WavSet ==
    { [exists |-> TRUE, framerate |-> 1000, nchannels |-> 1, sampwidth |-> 2, nframes |-> 3000],
      [exists |-> TRUE, framerate |-> 500, nchannels |-> 2, sampwidth |-> 1, nframes |-> 1500] }
\* word lists of word_list.txt, in load order: two words of one letter; a
\* word in upper case and a word of two letters
VocabSet ==
    { << <<"a">>, <<"b">> >>,
      << <<"A">>, <<"a", "b">> >> }
\* rows a transcript can hold: the two timestamp columns (milliseconds) and
\* the text; numeric is FALSE for a row whose timestamps float() rejects
RowSet ==
    { [numeric |-> TRUE, t0 |-> 1000, t1 |-> 2000, text |-> <<"A", "b">>],
      [numeric |-> TRUE, t0 |-> 199, t1 |-> 600, text |-> <<"c", "a">>],
      [numeric |-> TRUE, t0 |-> 4000, t1 |-> 5000, text |-> <<"c", "a">>],
      [numeric |-> FALSE, t0 |-> 0, t1 |-> 0, text |-> <<"a">>] }
\* the loop variable before its first assignment
NoRow == [numeric |-> FALSE, t0 |-> 0, t1 |-> 0, text |-> <<>>]
NoRec == [start_time |-> 0, end_time |-> 0, text |-> <<>>]

(***************************************************************************)
(* Pure helpers.                                                           *)
(***************************************************************************)
Min(a, b) == IF a <= b THEN a ELSE b

\* int(x) for x = n / d, d > 0: truncation toward zero
Trunc(n, d) == IF n >= 0 THEN n \div d ELSE -((-n) \div d)

\* str.lower() on one character
LowerChar(c) == CASE c = "A" -> "a" [] c = "B" -> "b" [] c = "C" -> "c" [] OTHER -> c

\* text.lower()
Lower(text) == [i \in 1..Len(text) |-> LowerChar(text[i])]

\* word in text: substring containment
Contains(word, text) ==
    \E i \in 0..(Len(text) - Len(word)) :
        \A j \in 1..Len(word) : text[i + j] = word[j]

\* word in text.lower()
Matches(word, text) == Contains(word, Lower(text))

\* int(fps * t) for a time t given in milliseconds
FrameOf(fps, ms) == Trunc(fps * ms, MS_PER_S)

\* getparams(): the format parameters a clip inherits
ParamsOf(w) == [framerate |-> w.framerate, nchannels |-> w.nchannels, sampwidth |-> w.sampwidth]

\* Wave_read.setpos(pos) accepts pos
SetPosOk(w, pos) == pos >= 0 /\ pos <= w.nframes

\* Wave_read.readframes(n) from position pos: the number of frames returned
ReadFrames(w, pos, n) ==
    IF n = 0 THEN 0
    ELSE IF n < 0 THEN w.nframes - pos
    ELSE Min(n, w.nframes - pos)

\* a clip: count frames of wav src from frame first on, with format params
Clip(params, src, first, count) ==
    [params |-> params, src |-> src, first |-> first, count |-> count]

\* the result of a call that raised before dest_file was opened
Raised == [ok |-> FALSE, written |-> FALSE, clip |-> Clip(ParamsOf(NoWav), 0, 0, 0)]

\* faulty variant: a negative start is moved to frame 0 instead of raising
ExtractAudio_ClampsStart(w, src, start_time, end_time) ==
    LET start_frame == IF start_time < 0 THEN 0 ELSE FrameOf(w.framerate, start_time)
        end_frame == FrameOf(w.framerate, end_time)
        n_frames == end_frame - start_frame
    IN  IF w.exists /\ SetPosOk(w, start_frame)
        THEN [ok |-> TRUE, written |-> TRUE,
              clip |-> Clip(ParamsOf(w), src, start_frame, ReadFrames(w, start_frame, n_frames))]
        ELSE Raised

\* faulty variant: the end frame is read too (n_frames + 1 frames)
ExtractAudio_InclusiveEnd(w, src, start_time, end_time) ==
    LET start_frame == FrameOf(w.framerate, start_time)
        end_frame == FrameOf(w.framerate, end_time)
        n_frames == end_frame - start_frame + 1
    IN  IF w.exists /\ SetPosOk(w, start_frame)
        THEN [ok |-> TRUE, written |-> TRUE,
              clip |-> Clip(ParamsOf(w), src, start_frame, ReadFrames(w, start_frame, n_frames))]
        ELSE Raised

\* faulty variant: dest_file is opened for writing before the source is
\* positioned, so a call that raises in setpos leaves an empty clip
ExtractAudio_OpensDestFirst(w, src, start_time, end_time) ==
    LET start_frame == FrameOf(w.framerate, start_time)
        end_frame == FrameOf(w.framerate, end_time)
        n_frames == end_frame - start_frame
    IN  IF w.exists /\ SetPosOk(w, start_frame)
        THEN [ok |-> TRUE, written |-> TRUE,
              clip |-> Clip(ParamsOf(w), src, start_frame, ReadFrames(w, start_frame, n_frames))]
        ELSE IF w.exists
             THEN [ok |-> FALSE, written |-> TRUE, clip |-> Clip(ParamsOf(w), src, 0, 0)]
             ELSE Raised

\* extract_audio(source_file, start_time, end_time, dest_file): whether it
\* returns normally (ok), whether dest_file was opened for writing
\* (written), and the clip dest_file holds then.  wave.open raises on a
\* missing source and setpos on a position out of range, both before
\* dest_file is opened.
ExtractAudio(w, src, start_time, end_time) ==
    LET start_frame == FrameOf(w.framerate, start_time)
        end_frame == FrameOf(w.framerate, end_time)
        n_frames == end_frame - start_frame
    IN  IF w.exists /\ SetPosOk(w, start_frame)
        THEN [ok |-> TRUE, written |-> TRUE,
              clip |-> Clip(ParamsOf(w), src, start_frame, ReadFrames(w, start_frame, n_frames))]
        ELSE Raised

(***************************************************************************)
(* State.                                                                  *)
(***************************************************************************)
VARIABLES
    STRINGS,     \* the target words, in load order
    tsvs,        \* the transcripts found; tsvs[i] is the wav paired with the i-th
    pc,          \* position of the script
    tsvIdx,      \* index in tsvs of tsv_filename (0 before the loop)
    line_num,    \* rows the current reader has delivered
    row,         \* loop variable of the main loop's "for row in reader"
    rec,         \* search_tsv's start_time, end_time, text
    wordIdx,     \* index in STRINGS of search_tsv's word
    unique_id,   \* the identifier counter
    sink,        \* rows of output.tsv
    clips,       \* audio_excerpts: identifier -> clip written in this run
    events,      \* history: the matches found, as (tsv, line, word index)
    attempts     \* history: the extract_audio calls made for the current match

vars == <<STRINGS, tsvs, pc, tsvIdx, line_num, row, rec, wordIdx, unique_id, sink,
          clips, events, attempts>>

\* the wav paired with the current transcript
wav_filename == tsvs[tsvIdx]

\* sequences over S of length at most n
SeqsUpTo(S, n) == UNION { [1..k -> S] : k \in 0..n }

Init ==
    /\ STRINGS \in VocabSet
    /\ tsvs \in SeqsUpTo(WavSet \cup {NoWav}, MaxTsvs)
    /\ pc = "start"
    /\ tsvIdx = 0
    /\ line_num = 0
    /\ row = NoRow
    /\ rec = NoRec
    /\ wordIdx = 0
    /\ unique_id = FIRST_ID
    /\ sink = <<>>
    /\ clips = <<>>
    /\ events = <<>>
    /\ attempts = <<>>

(***************************************************************************)
(* The run.                                                                *)
(***************************************************************************)
\* open(PATH_TO_OUTPUT_TSV, "w"), the header row, unique_id = 0
OpenOutput ==
    /\ pc = "start"
    /\ sink' = <<HEADER>>
    /\ unique_id' = FIRST_ID
    /\ pc' = "for_tsv"
    /\ UNCHANGED <<STRINGS, tsvs, tsvIdx, line_num, row, rec, wordIdx, clips, events, attempts>>

\* for tsv_filename in tsvs: open the transcript, next(reader) skips one row
OpenTsv ==
    /\ pc = "for_tsv"
    /\ tsvIdx < Len(tsvs)
    /\ tsvIdx' = tsvIdx + 1
    /\ \E empty \in BOOLEAN :
         IF empty
         THEN \* next(reader) raises StopIteration on a transcript without rows
              /\ pc' = "aborted"
              /\ line_num' = 0
         ELSE /\ pc' = "for_row"
              /\ line_num' = 1
    /\ UNCHANGED <<STRINGS, tsvs, row, rec, wordIdx, unique_id, sink, clips, events, attempts>>

\* the list of transcripts is exhausted: print("Processing complete!")
Complete ==
    /\ pc = "for_tsv"
    /\ tsvIdx = Len(tsvs)
    /\ pc' = "done"
    /\ UNCHANGED <<STRINGS, tsvs, tsvIdx, line_num, row, rec, wordIdx, unique_id, sink,
                   clips, events, attempts>>

\* the main loop's "for row in reader": the reader delivers the next row to
\* the loop variable and search_tsv is called on the same reader
MainRow ==
    /\ pc = "for_row"
    /\ line_num < MaxRows
    /\ \E r \in RowSet :
         /\ row' = r
         /\ line_num' = line_num + 1
         /\ pc' = "search_row"
    /\ UNCHANGED <<STRINGS, tsvs, tsvIdx, rec, wordIdx, unique_id, sink, clips, events, attempts>>

\* the main loop's reader is exhausted: on to the next transcript
MainEof ==
    /\ pc = "for_row"
    /\ pc' = "for_tsv"
    /\ UNCHANGED <<STRINGS, tsvs, tsvIdx, line_num, row, rec, wordIdx, unique_id, sink,
                   clips, events, attempts>>

\* search_tsv's "for row in reader" and the parse of the row
SearchRow ==
    /\ pc = "search_row"
    /\ line_num < MaxRows
    /\ \E r \in RowSet :
         /\ line_num' = line_num + 1
         /\ IF ~r.numeric
            THEN \* float() raises ValueError
                 /\ pc' = "aborted"
                 /\ UNCHANGED <<rec, wordIdx>>
            ELSE /\ rec' = [start_time |-> r.t0, end_time |-> r.t1, text |-> r.text]
                 /\ wordIdx' = 1
                 /\ pc' = "for_word"
    /\ UNCHANGED <<STRINGS, tsvs, tsvIdx, row, unique_id, sink, clips, events, attempts>>

\* search_tsv's reader is exhausted: return(unique_id); the main loop, on
\* the same exhausted reader, ends too
SearchEof ==
    /\ pc = "search_row"
    /\ pc' = "for_tsv"
    /\ UNCHANGED <<STRINGS, tsvs, tsvIdx, line_num, row, rec, wordIdx, unique_id, sink,
                   clips, events, attempts>>

\* for word in STRINGS: if word in text.lower()
NextWord ==
    /\ pc = "for_word"
    /\ IF wordIdx > Len(STRINGS)
       THEN /\ pc' = "search_row"
            /\ UNCHANGED <<wordIdx, events, attempts>>
       ELSE IF Matches(STRINGS[wordIdx], rec.text)
            THEN /\ pc' = "try_padded"
                 /\ events' = Append(events, [tsv |-> tsvIdx, line |-> line_num, word |-> wordIdx])
                 /\ attempts' = <<>>
                 /\ UNCHANGED wordIdx
            ELSE /\ wordIdx' = wordIdx + 1
                 /\ pc' = "for_word"
                 /\ UNCHANGED <<events, attempts>>
    /\ UNCHANGED <<STRINGS, tsvs, tsvIdx, line_num, row, rec, unique_id, sink, clips>>

\* writing dest_file chunk_{id}.wav
WriteClip(id, clip) ==
    [i \in DOMAIN clips \cup {id} |-> IF i = id THEN clip ELSE clips[i]]

\* faulty variant: no except clause, a failed padded attempt ends the run
TryPadded_NoFallback ==
    /\ pc = "try_padded"
    /\ LET res == ExtractAudio(wav_filename, tsvIdx, rec.start_time - PAD, rec.end_time + PAD)
       IN  /\ attempts' = Append(attempts, [window |-> "padded", ok |-> res.ok])
           /\ clips' = IF res.written THEN WriteClip(unique_id, res.clip) ELSE clips
           /\ pc' = IF res.ok THEN "write_row" ELSE "aborted"
    /\ UNCHANGED <<STRINGS, tsvs, tsvIdx, line_num, row, rec, wordIdx, unique_id, sink, events>>

\* try: extract_audio(wav_filename, start_time-0.2, end_time+0.2, dest_wav_filename)
TryPadded ==
    /\ pc = "try_padded"
    /\ LET res == ExtractAudio(wav_filename, tsvIdx, rec.start_time - PAD, rec.end_time + PAD)
       IN  /\ attempts' = Append(attempts, [window |-> "padded", ok |-> res.ok])
           /\ clips' = IF res.written THEN WriteClip(unique_id, res.clip) ELSE clips
           /\ pc' = IF res.ok THEN "write_row" ELSE "try_unpadded"
    /\ UNCHANGED <<STRINGS, tsvs, tsvIdx, line_num, row, rec, wordIdx, unique_id, sink, events>>

\* faulty variant: the failure of the unpadded attempt is swallowed and the
\* row is written all the same
TryUnpadded_Swallow ==
    /\ pc = "try_unpadded"
    /\ LET res == ExtractAudio(wav_filename, tsvIdx, rec.start_time, rec.end_time)
       IN  /\ attempts' = Append(attempts, [window |-> "unpadded", ok |-> res.ok])
           /\ clips' = IF res.written THEN WriteClip(unique_id, res.clip) ELSE clips
           /\ pc' = "write_row"
    /\ UNCHANGED <<STRINGS, tsvs, tsvIdx, line_num, row, rec, wordIdx, unique_id, sink, events>>

\* faulty variant: a match whose unpadded attempt fails is skipped and the
\* scan goes on with the next word
TryUnpadded_SkipsMatch ==
    /\ pc = "try_unpadded"
    /\ LET res == ExtractAudio(wav_filename, tsvIdx, rec.start_time, rec.end_time)
       IN  /\ attempts' = Append(attempts, [window |-> "unpadded", ok |-> res.ok])
           /\ clips' = IF res.written THEN WriteClip(unique_id, res.clip) ELSE clips
           /\ pc' = IF res.ok THEN "write_row" ELSE "for_word"
           /\ wordIdx' = IF res.ok THEN wordIdx ELSE wordIdx + 1
    /\ UNCHANGED <<STRINGS, tsvs, tsvIdx, line_num, row, rec, unique_id, sink, events>>

\* except: extract_audio(wav_filename, start_time, end_time, dest_wav_filename)
TryUnpadded ==
    /\ pc = "try_unpadded"
    /\ LET res == ExtractAudio(wav_filename, tsvIdx, rec.start_time, rec.end_time)
       IN  /\ attempts' = Append(attempts, [window |-> "unpadded", ok |-> res.ok])
           /\ clips' = IF res.written THEN WriteClip(unique_id, res.clip) ELSE clips
           /\ pc' = IF res.ok THEN "write_row" ELSE "aborted"
    /\ UNCHANGED <<STRINGS, tsvs, tsvIdx, line_num, row, rec, wordIdx, unique_id, sink, events>>

\* faulty variant: the row carries the bounds of the padded window
MetadataRow_WindowTimes ==
    [id |-> unique_id, parent |-> tsvIdx, word |-> STRINGS[wordIdx],
     start |-> rec.start_time - PAD, end |-> rec.end_time + PAD, text |-> rec.text]

\* the metadata row writer.writerow([...]) writes for the current match
MetadataRow ==
    [id |-> unique_id, parent |-> tsvIdx, word |-> STRINGS[wordIdx],
     start |-> rec.start_time, end |-> rec.end_time, text |-> rec.text]

\* faulty variant: unique_id is not incremented
WriteRow_KeepsId ==
    /\ pc = "write_row"
    /\ sink' = Append(sink, MetadataRow)
    /\ wordIdx' = wordIdx + 1
    /\ pc' = "for_word"
    /\ UNCHANGED <<STRINGS, tsvs, tsvIdx, line_num, row, rec, unique_id, clips, events, attempts>>

\* faulty variant: the new row is put right after the header, newest first
WriteRow_NewestFirst ==
    /\ pc = "write_row"
    /\ sink' = <<Head(sink), MetadataRow>> \o Tail(sink)
    /\ unique_id' = unique_id + 1
    /\ wordIdx' = wordIdx + 1
    /\ pc' = "for_word"
    /\ UNCHANGED <<STRINGS, tsvs, tsvIdx, line_num, row, rec, clips, events, attempts>>

\* writer.writerow([...]); unique_id += 1; on to the next word
WriteRow ==
    /\ pc = "write_row"
    /\ sink' = Append(sink, MetadataRow)
    /\ unique_id' = unique_id + 1
    /\ wordIdx' = wordIdx + 1
    /\ pc' = "for_word"
    /\ UNCHANGED <<STRINGS, tsvs, tsvIdx, line_num, row, rec, clips, events, attempts>>

Next ==
    \/ OpenOutput
    \/ OpenTsv
    \/ Complete
    \/ MainRow
    \/ MainEof
    \/ SearchRow
    \/ SearchEof
    \/ NextWord
    \/ TryPadded
    \/ TryUnpadded
    \/ WriteRow

Spec == Init /\ [][Next]_vars

(***************************************************************************)
(* The slicer on its own: one call of extract_audio on a wav and a window  *)
(* drawn from SliceTimes, writing chunk_0.                                 *)
(***************************************************************************)
\* window bounds in milliseconds, around zero and around the 3 s the wavs last
SliceTimes == {-1000, -1, 0, 1, 1000, 2000, 2999, 3000, 3001, 3002, 4000}

SlicerInit ==
    /\ STRINGS = <<>>
    /\ tsvs \in { <<w>> : w \in WavSet \cup {NoWav} }
    /\ pc = "slice"
    /\ tsvIdx = 1
    /\ line_num = 0
    /\ row = NoRow
    /\ rec \in [start_time : SliceTimes, end_time : SliceTimes, text : {<<>>}]
    /\ wordIdx = 0
    /\ unique_id = FIRST_ID
    /\ sink = <<>>
    /\ clips = <<>>
    /\ events = <<>>
    /\ attempts = <<>>

\* extract_audio(wav_filename, start_time, end_time, dest_wav_filename)
SliceCall ==
    /\ pc = "slice"
    /\ LET res == ExtractAudio(wav_filename, tsvIdx, rec.start_time, rec.end_time)
       IN  /\ attempts' = Append(attempts, [window |-> "exact", ok |-> res.ok])
           /\ clips' = IF res.written THEN WriteClip(unique_id, res.clip) ELSE clips
           /\ pc' = IF res.ok THEN "sliced" ELSE "slice_failed"
    /\ UNCHANGED <<STRINGS, tsvs, tsvIdx, line_num, row, rec, wordIdx, unique_id, sink, events>>

SlicerNext == SliceCall

SlicerSpec == SlicerInit /\ [][SlicerNext]_vars

(***************************************************************************)
(* Vocabulary of the properties.                                           *)
(***************************************************************************)
Last(s) == s[Len(s)]

\* number of data rows of output.tsv
DataRows == Len(sink) - 1

\* the k-th data row, counting from 0
DataRow(k) == sink[k + 2]

PaddedOk == <<[window |-> "padded", ok |-> TRUE]>>
PaddedFailed == <<[window |-> "padded", ok |-> FALSE]>>
FellBack == <<[window |-> "padded", ok |-> FALSE], [window |-> "unpadded", ok |-> TRUE]>>
BothFailed == <<[window |-> "padded", ok |-> FALSE], [window |-> "unpadded", ok |-> FALSE]>>

\* the script is between the first extract_audio call of a match and its row
InMatch == pc \in {"try_padded", "try_unpadded", "write_row"}

\* frames of the current call's window
StartFrame == FrameOf(wav_filename.framerate, rec.start_time)
EndFrame == FrameOf(wav_filename.framerate, rec.end_time)
PaddedStartFrame == FrameOf(wav_filename.framerate, rec.start_time - PAD)

\* the current record's own window lies inside its wav
UnpaddedInside ==
    /\ wav_filename.exists
    /\ 0 <= rec.start_time
    /\ rec.start_time <= rec.end_time
    /\ wav_filename.framerate * rec.end_time <= wav_filename.nframes * MS_PER_S

\* discovery order of two matches
Before(e, f) ==
    \/ e.tsv < f.tsv
    \/ e.tsv = f.tsv /\ e.line < f.line
    \/ e.tsv = f.tsv /\ e.line = f.line /\ e.word < f.word

(***************************************************************************)
(* C1: the identifiers are 0, 1, 2, ... in the order of extraction over    *)
(* the whole run: data row k names chunk_k, the counter equals the number  *)
(* of data rows, and every clip written is written under the counter's     *)
(* value, which no earlier extraction used.                                *)
(***************************************************************************)
C1_Identifiers ==
    /\ [](pc # "start" =>
            /\ unique_id = DataRows
            /\ \A k \in 0..(DataRows - 1) : DataRow(k).id = k
            /\ DOMAIN clips = 0..(IF pc = "write_row" THEN unique_id ELSE unique_id - 1))
    /\ [][clips' # clips =>
            /\ unique_id \notin DOMAIN clips
            /\ DOMAIN clips' = DOMAIN clips \cup {unique_id}]_vars

\* a completed run with extractions from two transcripts
C1_Witness ==
    /\ pc = "done"
    /\ unique_id >= 2
    /\ \E i, j \in 0..(DataRows - 1) : DataRow(i).parent # DataRow(j).parent

(***************************************************************************)
(* C2: only the header of a transcript is skipped: for the first row       *)
(* after the header, as for every other, each target word contained in its *)
(* lower-cased text gives exactly one match event.                         *)
(***************************************************************************)
C2_FirstDataRowScanned ==
    (pc = "for_tsv" /\ tsvIdx >= 1 /\ line_num >= 2 /\ row.numeric) =>
        \A w \in 1..Len(STRINGS) :
            Matches(STRINGS[w], row.text) =>
                Cardinality({ i \in 1..Len(events) :
                    events[i] = [tsv |-> tsvIdx, line |-> 2, word |-> w] }) = 1

(***************************************************************************)
(* C3 as stated: a run never completes normally when the wav of one of     *)
(* its transcripts is missing.                                             *)
(***************************************************************************)
C3_Original ==
    pc = "done" => \A i \in 1..Len(tsvs) : tsvs[i].exists

(***************************************************************************)
(* C3 amended: a transcript whose wav is missing aborts the run at its     *)
(* first match event: the match is the last one of the run, and no clip    *)
(* and no metadata row ever comes from that transcript.                    *)
(***************************************************************************)
C3_MissingWavAbortsAtMatch ==
    /\ \A k \in 0..(DataRows - 1) : tsvs[DataRow(k).parent].exists
    /\ \A k \in DOMAIN clips : tsvs[clips[k].src].exists
    /\ \A i \in 1..Len(events) :
         ~tsvs[events[i].tsv].exists =>
            /\ i = Len(events)
            /\ pc \in {"try_padded", "try_unpadded", "aborted"}

\* the run has aborted on a match in a transcript without wav
C3_Witness ==
    /\ pc = "aborted"
    /\ ~wav_filename.exists
    /\ attempts = BothFailed

(***************************************************************************)
(* C4 as stated: whenever start_time < 0.2 s and the record's own window   *)
(* lies inside the wav, the padded attempt fails.                          *)
(***************************************************************************)
C4_Original ==
    [][(pc = "try_padded" /\ rec.start_time < PAD /\ UnpaddedInside) =>
            pc' = "try_unpadded"]_vars

(***************************************************************************)
(* C4 amended: whenever the padded start frame int(fps * (start_time -     *)
(* 0.2)) is negative and the record's own window lies inside the wav, the  *)
(* padded attempt fails without writing, the unpadded attempt writes the   *)
(* frames of exactly (start_time, end_time) under the current identifier,  *)
(* the metadata row is appended and the scan goes on.                      *)
(***************************************************************************)
C4_Fallback ==
    [][/\ (pc = "try_padded" /\ PaddedStartFrame < 0 /\ UnpaddedInside) =>
            (pc' = "try_unpadded" /\ clips' = clips)
       /\ (pc = "try_unpadded" /\ UnpaddedInside) =>
            /\ pc' = "write_row"
            /\ unique_id \in DOMAIN clips'
            /\ clips'[unique_id] =
                 Clip(ParamsOf(wav_filename), tsvIdx, StartFrame, EndFrame - StartFrame)
       /\ (pc = "write_row" /\ attempts = FellBack) =>
            /\ pc' = "for_word"
            /\ Len(sink') = Len(sink) + 1
            /\ Last(sink').id = unique_id
            /\ Last(sink').start = rec.start_time
            /\ Last(sink').end = rec.end_time]_vars

\* a match starting before 0.2 s was extracted by the fallback and recorded
C4_Witness ==
    /\ pc = "for_word"
    /\ attempts = FellBack
    /\ rec.start_time < PAD
    /\ PaddedStartFrame < 0
    /\ DataRows >= 1
    /\ Last(sink).id = unique_id - 1
    /\ clips[unique_id - 1].first = StartFrame

(***************************************************************************)
(* C5: a match gets the padded attempt first and the unpadded attempt at   *)
(* most once, only after the padded one failed; when the unpadded attempt  *)
(* fails too the run aborts there: no row, no increment, no clip touched,  *)
(* and nothing happens after an abort (no later row, word or transcript,   *)
(* no completion notice).                                                  *)
(***************************************************************************)
C5_AbortWhenBothFail ==
    /\ [](/\ attempts \in {<<>>, PaddedOk, PaddedFailed, FellBack, BothFailed}
          /\ pc = "try_padded" => attempts = <<>>
          /\ pc = "try_unpadded" => attempts = PaddedFailed)
    /\ [][/\ pc # "aborted"
          /\ (pc = "try_unpadded"
                /\ ~ExtractAudio(wav_filename, tsvIdx, rec.start_time, rec.end_time).ok) =>
                (pc' = "aborted" /\ UNCHANGED <<sink, unique_id, clips, events>>)]_vars

\* the run has aborted on a match after earlier extractions
C5_Witness ==
    /\ pc = "aborted"
    /\ attempts = BothFailed
    /\ DataRows >= 1
    /\ unique_id = DataRows
    /\ DOMAIN clips = 0..(unique_id - 1)

(***************************************************************************)
(* C8 as stated: the row of a match whose padded extraction succeeded      *)
(* carries the bounds of the extracted window, start_time - 0.2 and        *)
(* end_time + 0.2.                                                         *)
(***************************************************************************)
C8_Original ==
    [][(pc = "write_row" /\ attempts = PaddedOk) =>
            /\ Last(sink').start = rec.start_time - PAD
            /\ Last(sink').end = rec.end_time + PAD]_vars

(***************************************************************************)
(* C8 amended: the row of a match whose padded extraction succeeded is     *)
(* (clip named from the identifier, parent wav, matched word, start_time,  *)
(* end_time, text) with the record's own start_time and end_time, while    *)
(* the clip it names starts at the frame of start_time - 0.2.              *)
(***************************************************************************)
C8_RowCarriesRecordTimes ==
    [][(pc = "write_row" /\ attempts = PaddedOk) =>
            /\ sink' = Append(sink, [id |-> unique_id, parent |-> tsvIdx,
                                     word |-> STRINGS[wordIdx], start |-> rec.start_time,
                                     end |-> rec.end_time, text |-> rec.text])
            /\ clips[unique_id].first = PaddedStartFrame
            /\ clips[unique_id].src = tsvIdx]_vars

\* the row (1000, 2000) was extracted with padding and recorded: the row
\* says 1000 and 2000, the clip starts at the frame of 800
C8_Witness ==
    /\ pc = "for_word"
    /\ attempts = PaddedOk
    /\ rec.start_time = 1000 /\ rec.end_time = 2000
    /\ DataRows >= 1
    /\ Last(sink).start = 1000 /\ Last(sink).end = 2000
    /\ Last(sink).id = unique_id - 1
    /\ clips[unique_id - 1].first = FrameOf(wav_filename.framerate, 800)

(***************************************************************************)
(* C9: once opened, output.tsv is the header followed by one row per       *)
(* extraction in discovery order (transcript, then row, then word in load  *)
(* order), and it only ever grows at its end.                              *)
(***************************************************************************)
C9_SinkOrder ==
    /\ [](pc # "start" =>
            /\ sink[1] = HEADER
            /\ DataRows <= Len(events)
            /\ Len(events) <= DataRows + 1
            /\ \A k \in 0..(DataRows - 1) :
                 /\ DataRow(k).parent = events[k + 1].tsv
                 /\ DataRow(k).word = STRINGS[events[k + 1].word]
            /\ \A i, j \in 1..Len(events) : i < j => Before(events[i], events[j]))
    /\ [][pc # "start" =>
            /\ Len(sink') >= Len(sink)
            /\ SubSeq(sink', 1, Len(sink)) = sink]_vars

\* a completed run with two words matched in one row, two rows matched in
\* one transcript, and matches in two transcripts
C9_Witness ==
    /\ pc = "done"
    /\ DataRows = Len(events)
    /\ \E i, j \in 1..Len(events) :
         events[i].tsv = events[j].tsv /\ events[i].line = events[j].line
            /\ events[i].word < events[j].word
    /\ \E i, j \in 1..Len(events) :
         events[i].tsv = events[j].tsv /\ events[i].line < events[j].line
    /\ \E i, j \in 1..Len(events) : events[i].tsv < events[j].tsv

\* output.tsv of a completed run without any match
C9_WitnessHeaderOnly ==
    /\ pc = "done"
    /\ Len(tsvs) >= 1
    /\ sink = <<HEADER>>

(***************************************************************************)
(* C10: an extract_audio call that fails leaves audio_excerpts untouched,  *)
(* so outside the processing of a match (the state after an abort          *)
(* included) the clips written in the run are exactly chunk_0 ..           *)
(* chunk_(n-1) for the n data rows of output.tsv, and data row i names     *)
(* chunk_i.                                                                *)
(***************************************************************************)
C10_ClipsMatchRows ==
    /\ [](~InMatch =>
            /\ DOMAIN clips = 0..(DataRows - 1)
            /\ \A i \in 0..(DataRows - 1) : DataRow(i).id = i /\ clips[i].src = DataRow(i).parent)
    /\ [][(pc \in {"try_padded", "try_unpadded"} /\ ~Last(attempts').ok) =>
            clips' = clips]_vars

\* the run has aborted on a window out of the range of an existing wav,
\* after earlier extractions
C10_Witness ==
    /\ pc = "aborted"
    /\ attempts = BothFailed
    /\ wav_filename.exists
    /\ clips # <<>>
    /\ DataRows = Cardinality(DOMAIN clips)

(***************************************************************************)
(* The slicer's claims, on SlicerSpec.                                     *)
(***************************************************************************)
\* a call of the slicer has returned or raised
Sliced == pc \in {"sliced", "slice_failed"}

\* end_frame - start_frame of the call
FrameCount == EndFrame - StartFrame

(***************************************************************************)
(* C6 as stated: the call fails, writing no clip, whenever start_frame is  *)
(* negative, or exceeds the source's frame count, or frame_count <= 0.     *)
(***************************************************************************)
C6_Original ==
    (Sliced /\ (StartFrame < 0 \/ StartFrame > wav_filename.nframes \/ FrameCount <= 0)) =>
        (pc = "slice_failed" /\ clips = <<>>)

(***************************************************************************)
(* C6 amended: the call fails, writing no clip, whenever start_frame is    *)
(* negative or exceeds the source's frame count; frame_count <= 0 is no    *)
(* failure: with start_frame in range the call succeeds, and the clip is   *)
(* empty for frame_count = 0 and holds the frames from start_frame to the  *)
(* end of the source for frame_count < 0.                                  *)
(***************************************************************************)
C6_RangeFailures ==
    Sliced =>
        /\ (StartFrame < 0 \/ StartFrame > wav_filename.nframes) =>
              (pc = "slice_failed" /\ clips = <<>>)
        /\ (wav_filename.exists /\ StartFrame >= 0 /\ StartFrame <= wav_filename.nframes
              /\ FrameCount <= 0) =>
              /\ pc = "sliced"
              /\ DOMAIN clips = {unique_id}
              /\ clips[unique_id].first = StartFrame
              /\ clips[unique_id].count =
                    IF FrameCount = 0 THEN 0 ELSE wav_filename.nframes - StartFrame

\* a call whose end lies before its start has written the rest of the source
C6_Witness ==
    /\ pc = "sliced"
    /\ FrameCount < 0
    /\ clips[unique_id].count > 0

(***************************************************************************)
(* C7 as stated: a call that succeeds writes exactly frame_count frames,   *)
(* the source frames start_frame .. end_frame - 1, with the source's       *)
(* format parameters.                                                      *)
(***************************************************************************)
C7_Original ==
    pc = "sliced" =>
        /\ clips[unique_id].first = StartFrame
        /\ clips[unique_id].count = FrameCount
        /\ clips[unique_id].params = ParamsOf(wav_filename)

(***************************************************************************)
(* C7 amended: a call that succeeds writes a clip with the source's format *)
(* parameters that holds the source frames from start_frame up to          *)
(* end_frame or the end of the source, whichever comes first (up to the    *)
(* end of the source when end_frame < start_frame): exactly frame_count    *)
(* frames only if the window ends inside the source.                       *)
(***************************************************************************)
C7_ClipContent ==
    pc = "sliced" =>
        LET c == clips[unique_id]
            stop == IF EndFrame < StartFrame THEN wav_filename.nframes
                    ELSE Min(EndFrame, wav_filename.nframes)
        IN  /\ DOMAIN clips = {unique_id}
            /\ c.src = tsvIdx
            /\ c.params.framerate = wav_filename.framerate
            /\ c.params.nchannels = wav_filename.nchannels
            /\ c.params.sampwidth = wav_filename.sampwidth
            /\ c.first = StartFrame
            /\ c.first + c.count = stop
            /\ (0 <= FrameCount /\ EndFrame <= wav_filename.nframes) => c.count = FrameCount

\* a window whose end lies past the end of the source was accepted and cut
C7_Witness ==
    /\ pc = "sliced"
    /\ EndFrame > wav_filename.nframes
    /\ StartFrame < wav_filename.nframes
    /\ clips[unique_id].count < FrameCount
    /\ clips[unique_id].count > 0
====
